---- MODULE Spec2Model ----
(***************************************************************************)
(* The NgRx todos store of the repository: the reducer (todos.reducer.ts), *)
(* the effects (todos.effects.ts), the mock data source (todos.service.ts) *)
(* and the facade (todos.facade.ts).                                       *)
(*                                                                         *)
(* One step of the model is one JavaScript task: a facade call (dispatch,  *)
(* reducer, then the effect's switchMap projection, which calls the        *)
(* service synchronously), or the settlement of one data source call (the  *)
(* inner observable's notification, the follow-up action it is mapped to,  *)
(* the reducer on that action and the effect the follow-up triggers).      *)
(*                                                                         *)
(* The service keeps its records as objects: getTodos hands out a shallow  *)
(* copy of the array, so the records the store receives are the service's  *)
(* own objects.  heap holds those objects; a store entry is either such a  *)
(* reference or an object the reducer made itself.                         *)
(*                                                                         *)
(* The data source is taken with the latency and the failures of its       *)
(* contract: a call settles at any later step, in any order with the other *)
(* calls, with the value the service computed when it was called or with   *)
(* an error notification (the delays of 500 and 1000 ms and the mock that  *)
(* never fails are one instance).  The service changes its collection when *)
(* it is called, as the code does, whatever the call settles with.         *)
(*                                                                         *)
(* Six specifications share the state: Spec is the store with its          *)
(* effects and the service; SpecReducer is the reducer on its own, applied *)
(* to any sequence of actions; SpecCallers is Spec with the Todos          *)
(* component and with callers that hand the facade any title; SpecTable is *)
(* the user table (its search box, sorting and paging), which shares       *)
(* nothing with the store; SpecSort is the table's sort on its own,        *)
(* applied to lists of users some of whose keys are equal; SpecSucceeds is *)
(* Spec with a data source that never fails and whose calls all settle.    *)
(* Strings the table takes apart are sequences of characters.              *)
(***************************************************************************)
EXTENDS Integers, Sequences, FiniteSets, TLC

\* ------------------------------------------------------------------ bounds
\* Facade calls made by callers in one behaviour.
MaxCommands == 3

VARIABLES
    state,      \* TodosState held by the store: [todos, loading, error]
    mockTodos,  \* TodosService.mockTodos: the addresses of its records, in order
    heap,       \* the service's record objects, by address
    now,        \* what Date.now() returned when it was last read
    calls,      \* data source calls that have not settled yet
    faulted,    \* effects whose outer stream was ended by an uncaught error
    ncmd,       \* facade calls made so far
    ev,         \* what the last step did (history)
    searchTerm,     \* UserTableComponent.searchTerm, a sequence of characters
    currentPage,    \* UserTableComponent.currentPage
    pageSize,       \* UserTableComponent.pageSize
    sortColumn,     \* UserTableComponent.sortColumn
    sortDirection,  \* UserTableComponent.sortDirection
    lastValue,      \* debounceTime: the value waiting for its timer, if any
    elapsed,        \* debounceTime: the time since that value arrived
    previous,       \* distinctUntilChanged: the value it let through last, if any
    destroyed,      \* whether ngOnDestroy has run (takeUntil has completed)
    tev,            \* what the last step of the user table did (history)
    sorting         \* one evaluation of sortedUsers: what it read and returned

storeVars == <<state, mockTodos, heap, now, calls, faulted, ncmd, ev>>

tableVars == <<searchTerm, currentPage, pageSize, sortColumn, sortDirection,
               lastValue, elapsed, previous, destroyed, tev>>

vars == <<state, mockTodos, heap, now, calls, faulted, ncmd, ev,
          searchTerm, currentPage, pageSize, sortColumn, sortDirection,
          lastValue, elapsed, previous, destroyed, tev, sorting>>

\* ----------------------------------------------------------------- values
null == <<>>
Some(x) == <<x>>

Lanes == {"load", "add", "toggle", "delete"}
MutationLanes == {"add", "toggle", "delete"}

\* Reasons a data source call can fail with (error.message).
Messages == {"offline"}
\* Titles callers add.
Titles == {"Write tests"}
\* An id no record ever has.
MissingId == "0"

\* The milliseconds at which Date.now() is read.
Instants == {10, 11}

\* Date.now().toString()
DateNowToString(t) == ToString(t)

\* A record object the reducer made: not shared with the service.
Own(id, title, completed) ==
    [ref |-> 0, id |-> id, title |-> title, completed |-> completed]
\* A record object of the service, held by reference.
Alias(a) == [ref |-> a, id |-> "", title |-> "", completed |-> FALSE]

\* The record an entry denotes in heap h.
ValIn(h, e) ==
    IF e.ref = 0 THEN [id |-> e.id, title |-> e.title, completed |-> e.completed]
    ELSE h[e.ref]
Val(e) == ValIn(heap, e)

\* The records of the store state, by value.
Items == [i \in DOMAIN state.todos |-> Val(state.todos[i])]
Source == [i \in DOMAIN mockTodos |-> heap[mockTodos[i]]]

Range(s) == {s[i] : i \in DOMAIN s}
IdsOf(recs) == {recs[i].id : i \in DOMAIN recs}

\* ---------------------------------------------------------------- actions
\* The action creators of todos.action.ts (one record shape for all of them).
Action(type, title, id, todos, error) ==
    [type |-> type, title |-> title, id |-> id, todos |-> todos, error |-> error]
addTodo(title) == Action("[Todos] Add Todo", title, "", <<>>, null)
toggleTodo(id) == Action("[Todos] Toggle Todo", "", id, <<>>, null)
deleteTodo(id) == Action("[Todos] Delete Todo", "", id, <<>>, null)
loadTodos == Action("[Todos] Load Todos", "", "", <<>>, null)
loadTodosSuccess(todos) == Action("[Todos] Load Todos Success", "", "", todos, null)
loadTodosFailure(error) == Action("[Todos] Load Todos Failure", "", "", <<>>, Some(error))
\* No action (a step that dispatches nothing).
NoAction == Action("", "", "", <<>>, null)

\* ---------------------------------------------------------------- reducer
initialState == [todos |-> <<>>, loading |-> FALSE, error |-> null]

\* on(loadTodos) without error: null.
onLoadTodosKeepsError(s) == [s EXCEPT !.loading = TRUE]

\* on(loadTodos)
onLoadTodos(s) == [s EXCEPT !.loading = TRUE, !.error = null]

\* on(loadTodosSuccess) with error: null added.
onLoadTodosSuccessClearsError(s, a) ==
    [s EXCEPT !.todos = a.todos, !.loading = FALSE, !.error = null]

\* on(loadTodosSuccess)
onLoadTodosSuccess(s, a) == [s EXCEPT !.todos = a.todos, !.loading = FALSE]

\* on(loadTodosFailure) without loading: false.
onLoadTodosFailureKeepsLoading(s, a) == [s EXCEPT !.error = a.error]

\* on(loadTodosFailure) with todos: [] added.
onLoadTodosFailureDropsItems(s, a) ==
    [s EXCEPT !.todos = <<>>, !.loading = FALSE, !.error = a.error]

\* on(loadTodosFailure)
onLoadTodosFailure(s, a) == [s EXCEPT !.loading = FALSE, !.error = a.error]

\* on(addTodo): t is what Date.now() returns during the reduction.
onAddTodo(s, a, t) ==
    LET newTodo == Own(DateNowToString(t), a.title, FALSE)
    IN  [s EXCEPT !.todos = Append(@, newTodo)]

\* on(toggleTodo) leaving the change to the service, which flips the record
\* the store shares with it.
onToggleTodoShares(s, a, hp) == s

\* on(toggleTodo) marking the record completed instead of flipping it.
onToggleTodoCompletes(s, a, hp) ==
    [s EXCEPT !.todos =
        [i \in DOMAIN @ |->
            LET todo == ValIn(hp, @[i]) IN
            IF todo.id = a.id
            THEN Own(todo.id, todo.title, TRUE)
            ELSE @[i]]]

\* on(toggleTodo) flipping every record, whatever its id.
onToggleTodoEvery(s, a, hp) ==
    [s EXCEPT !.todos =
        [i \in DOMAIN @ |->
            LET todo == ValIn(hp, @[i]) IN
            Own(todo.id, todo.title, ~todo.completed)]]

\* on(toggleTodo): hp is the heap the reducer reads the records' fields from.
\* The record with the id is replaced by a changed copy of it.
onToggleTodo(s, a, hp) ==
    [s EXCEPT !.todos =
        [i \in DOMAIN @ |->
            LET todo == ValIn(hp, @[i]) IN
            IF todo.id = a.id
            THEN Own(todo.id, todo.title, ~todo.completed)
            ELSE @[i]]]

\* on(deleteTodo) with the filter inverted: the records with the id are kept.
onDeleteTodoInverted(s, a, hp) ==
    [s EXCEPT !.todos = SelectSeq(@, LAMBDA e : ValIn(hp, e).id = a.id)]

\* on(deleteTodo)
onDeleteTodo(s, a, hp) ==
    [s EXCEPT !.todos = SelectSeq(@, LAMBDA e : ValIn(hp, e).id # a.id)]

\* todosReducer; an action no on(...) names leaves the state as it is.
todosReducer(s, a, t, hp) ==
    CASE a.type = loadTodos.type -> onLoadTodos(s)
      [] a.type = loadTodosSuccess(<<>>).type -> onLoadTodosSuccess(s, a)
      [] a.type = loadTodosFailure("").type -> onLoadTodosFailure(s, a)
      [] a.type = addTodo("").type -> onAddTodo(s, a, t)
      [] a.type = toggleTodo("").type -> onToggleTodo(s, a, hp)
      [] a.type = deleteTodo("").type -> onDeleteTodo(s, a, hp)
      [] OTHER -> s

\* ----------------------------------------------------------- data source
\* Each operation of TodosService maps the service's (mockTodos, heap) to
\* the new pair and the value its observable will emit.
Returned(mock, hp, value, removed) ==
    [mockTodos |-> mock, heap |-> hp, value |-> value, removed |-> removed]

\* The first index of mock whose record has the id, 0 if there is none.
FindIndex(mock, hp, id) ==
    IF \E i \in DOMAIN mock : hp[mock[i]].id = id
    THEN CHOOSE i \in DOMAIN mock :
            /\ hp[mock[i]].id = id
            /\ \A j \in 1..(i - 1) : hp[mock[j]].id # id
    ELSE 0

\* of([...this.mockTodos]): a new array of the same record objects.
TodosService_getTodos(mock, hp) == Returned(mock, hp, mock, FALSE)

TodosService_addTodo(mock, hp, title, t) ==
    LET newTodo == [id |-> DateNowToString(t), title |-> title, completed |-> FALSE]
        a == Len(hp) + 1
    IN  Returned(Append(mock, a), Append(hp, newTodo), <<a>>, FALSE)

\* The record is changed in place; the value is the record, or undefined.
TodosService_toggleTodo(mock, hp, id) ==
    LET i == FindIndex(mock, hp, id) IN
    IF i # 0
    THEN Returned(mock, [hp EXCEPT ![mock[i]].completed = ~@], <<mock[i]>>, FALSE)
    ELSE Returned(mock, hp, <<>>, FALSE)

TodosService_deleteTodo(mock, hp, id) ==
    LET index == FindIndex(mock, hp, id) IN
    IF index > 0
    THEN Returned(SubSeq(mock, 1, index - 1) \o SubSeq(mock, index + 1, Len(mock)),
                  hp, <<>>, TRUE)
    ELSE Returned(mock, hp, <<>>, FALSE)

\* ---------------------------------------------------------------- effects
\* ofType with the delete effect listening to no action.
ofTypeMissesDelete(a) ==
    CASE a.type = loadTodos.type -> "load"
      [] a.type = addTodo("").type -> "add"
      [] a.type = toggleTodo("").type -> "toggle"
      [] OTHER -> "none"

\* The lane of an effect is the action type its ofType lets through.
ofType(a) ==
    CASE a.type = loadTodos.type -> "load"
      [] a.type = addTodo("").type -> "add"
      [] a.type = toggleTodo("").type -> "toggle"
      [] a.type = deleteTodo("").type -> "delete"
      [] OTHER -> "none"

\* The projection each effect hands to switchMap: the service operation it
\* calls for action a, and the argument it passes.
Project(a) ==
    CASE ofType(a) = "load" -> [op |-> "getTodos", arg |-> ""]
      [] ofType(a) = "add" -> [op |-> "addTodo", arg |-> a.title]
      [] ofType(a) = "toggle" -> [op |-> "toggleTodo", arg |-> a.id]
      [] ofType(a) = "delete" -> [op |-> "deleteTodo", arg |-> a.id]
      [] OTHER -> [op |-> "", arg |-> ""]

\* The service operation p runs, at Date.now() = t.
Invoke(p, t, mock, hp) ==
    CASE p.op = "getTodos" -> TodosService_getTodos(mock, hp)
      [] p.op = "addTodo" -> TodosService_addTodo(mock, hp, p.arg, t)
      [] p.op = "toggleTodo" -> TodosService_toggleTodo(mock, hp, p.arg)
      [] p.op = "deleteTodo" -> TodosService_deleteTodo(mock, hp, p.arg)
      [] OTHER -> Returned(mock, hp, <<>>, FALSE)

\* What the inner observable of a call tells its subscriber when it settles.
Next_(value) == [ok |-> TRUE, value |-> value, message |-> ""]
Error_(message) == [ok |-> FALSE, value |-> <<>>, message |-> message]

\* The inner pipe of each effect, map(...) then catchError(...): the action
\* it emits for a notification, and whether an error leaves it uncaught.
Emits(a) == [out |-> <<a>>, fault |-> FALSE]

\* An error left to the outer stream.
Uncaught == [out |-> <<>>, fault |-> TRUE]

\* loadTodos$ with an error mapped to an empty success.
loadTodosEffectSwallows(n) ==
    IF n.ok
    THEN Emits(loadTodosSuccess([i \in DOMAIN n.value |-> Alias(n.value[i])]))
    ELSE Emits(loadTodosSuccess(<<>>))

\* loadTodos$ fetching again when the fetch fails.
loadTodosEffectRetries(n) ==
    IF n.ok
    THEN Emits(loadTodosSuccess([i \in DOMAIN n.value |-> Alias(n.value[i])]))
    ELSE Emits(loadTodos)

\* loadTodos$
loadTodosEffect(n) ==
    IF n.ok
    THEN Emits(loadTodosSuccess([i \in DOMAIN n.value |-> Alias(n.value[i])]))
    ELSE Emits(loadTodosFailure(n.message))

\* addTodo$ without catchError.
addTodoEffectNoCatch(n) == IF n.ok THEN Emits(loadTodos) ELSE Uncaught

\* addTodo$ dispatching nothing when the add succeeds.
addTodoEffectNoReload(n) ==
    IF n.ok
    THEN [out |-> <<>>, fault |-> FALSE]
    ELSE Emits(loadTodosFailure(n.message))

\* addTodo$
addTodoEffect(n) ==
    IF n.ok THEN Emits(loadTodos) ELSE Emits(loadTodosFailure(n.message))

\* toggleTodo$ treating the undefined that toggleTodo returns for an id it
\* does not find as a failure.
toggleTodoEffectRejectsAbsent(n) ==
    IF n.ok /\ n.value # <<>> THEN Emits(loadTodos)
    ELSE Emits(loadTodosFailure(IF n.ok THEN "not found" ELSE n.message))

\* toggleTodo$ with catchError on the outer stream: a failure ends the effect.
toggleTodoEffectCatchOutside(n) == IF n.ok THEN Emits(loadTodos) ELSE Uncaught

\* toggleTodo$
toggleTodoEffect(n) ==
    IF n.ok THEN Emits(loadTodos) ELSE Emits(loadTodosFailure(n.message))

\* deleteTodo$ reloading whatever the outcome.
deleteTodoEffectAlwaysReloads(n) == Emits(loadTodos)

\* deleteTodo$
deleteTodoEffect(n) ==
    IF n.ok THEN Emits(loadTodos) ELSE Emits(loadTodosFailure(n.message))

InnerPipe(lane, n) ==
    CASE lane = "load" -> loadTodosEffect(n)
      [] lane = "add" -> addTodoEffect(n)
      [] lane = "toggle" -> toggleTodoEffect(n)
      [] lane = "delete" -> deleteTodoEffect(n)

\* What an unsubscribed observable would have emitted reaches nobody, so a
\* call the effect has unsubscribed from is kept without it.
Unsubscribed(x) ==
    [x EXCEPT !.subscribed = FALSE, !.op = "", !.arg = "", !.value = <<>>,
              !.removed = FALSE]

\* mergeMap: every inner observable stays subscribed.
mergeMap(cs, c) == cs \cup {c}

\* exhaustMap: a call made while the lane is busy is the one dropped.
exhaustMap(cs, c) ==
    IF \E x \in cs : x.lane = c.lane /\ x.subscribed
    THEN cs \cup {Unsubscribed(c)}
    ELSE cs \cup {c}

\* One switchMap shared by all the effects.
switchMapShared(cs, c) == {Unsubscribed(x) : x \in cs} \cup {c}

\* switchMap: subscribing to the inner observable of call c unsubscribes the
\* effect from the inner observable it was subscribed to; the other effects'
\* subscriptions are their own.
switchMap(cs, c) ==
    {IF x.lane = c.lane THEN Unsubscribed(x) ELSE x : x \in cs} \cup {c}

\* A data source call in flight: the effect (lane) that made it, whether the
\* effect is still subscribed to its observable, the operation and argument
\* it was called with and the value it will emit; latest records that no
\* later call of the same lane has been made (history: the code keeps no such
\* flag).
Call(lane, p, r) ==
    [lane |-> lane, subscribed |-> TRUE, latest |-> TRUE, op |-> p.op,
     arg |-> p.arg, value |-> r.value, removed |-> r.removed]

\* ------------------------------------------------------------------ store
\* Whether dispatching a makes an effect call the service.
Triggers(a) == ofType(a) \in Lanes \ faulted

\* store.dispatch(a) with the calls cs in flight: the reducer runs, then the
\* effect whose ofType matches a calls the service and switches to the new
\* inner observable.  t1 and t2 are Date.now() in the reducer and in the
\* service.
Dispatch(a, cs, t1, t2) ==
    LET lane == ofType(a)
        p == Project(a)
        r == Invoke(p, t2, mockTodos, heap)
        older == {[x EXCEPT !.latest = @ /\ x.lane # lane] : x \in cs}
    IN  /\ state' = todosReducer(state, a, t1, heap)
        /\ IF Triggers(a)
           THEN /\ mockTodos' = r.mockTodos
                /\ heap' = r.heap
                /\ calls' = switchMap(older, Call(lane, p, r))
           ELSE /\ calls' = cs
                /\ UNCHANGED <<mockTodos, heap>>

\* What a step did: a facade call ("call") or a settlement ("settle"); the
\* lane of the call made or settled; for a settlement, whether the effect
\* was still subscribed to the call, whether it was the latest call of its
\* lane, and the notification; the action the caller dispatched (NoAction
\* in a settlement); the actions the effect emitted, which the store then
\* dispatched; the number of service operations the step invoked.
Event(kind, lane, subscribed, latest, n, a, out) ==
    [kind |-> kind, lane |-> lane, subscribed |-> subscribed,
     latest |-> latest, ok |-> n.ok, value |-> n.value, message |-> n.message,
     action |-> a, out |-> out,
     invoked |-> Cardinality({x \in {a} \cup Range(out) : Triggers(x)})]

Init ==
    /\ state = initialState
    /\ heap = << [id |-> "1", title |-> "Learn Angular", completed |-> TRUE],
                 [id |-> "2", title |-> "Learn NgRx", completed |-> FALSE],
                 [id |-> "3", title |-> "Build an app", completed |-> FALSE] >>
    /\ mockTodos = <<1, 2, 3>>
    /\ now = 10
    /\ calls = {}
    /\ faulted = {}
    /\ ncmd = 0
    /\ ev = Event("init", "none", FALSE, FALSE, Next_(<<>>), NoAction, <<>>)
    /\ searchTerm = <<>>
    /\ currentPage = 1
    /\ pageSize = 5
    /\ sortColumn = "name"
    /\ sortDirection = "asc"
    /\ lastValue = null
    /\ elapsed = 0
    /\ previous = null
    /\ destroyed = FALSE
    /\ tev = [kind |-> "init", value |-> <<>>, page |-> 0, column |-> "",
              cancelled |-> null, waited |-> 0]
    /\ sorting = [users |-> <<>>, column |-> "", direction |-> "asc",
                  result |-> null]

\* A facade method: dispatch the action, as a caller's own task.
FacadeDispatch(a, t1, t2) ==
    /\ ncmd < MaxCommands
    /\ ncmd' = ncmd + 1
    /\ Dispatch(a, calls, t1, t2)
    /\ now' = t2
    /\ ev' = Event("call", ofType(a), TRUE, TRUE, Next_(<<>>), a, <<>>)
    /\ UNCHANGED faulted
    /\ UNCHANGED <<tableVars, sorting>>

TodosFacade_loadTodos == FacadeDispatch(loadTodos, now, now)

\* The reducer and the service each read Date.now(): any time may have
\* passed since the clock was last read, and a millisecond may pass between
\* the two reads.
TodosFacade_addTodoOf(title, t1, t2) ==
    /\ now <= t1
    /\ t2 \in {t1, t1 + 1}
    /\ FacadeDispatch(addTodo(title), t1, t2)

TodosFacade_addTodo ==
    \E title \in Titles : \E t1, t2 \in Instants :
        TodosFacade_addTodoOf(title, t1, t2)

\* Ids a caller names: a record of the service's first collection, the
\* records added since, and an id no record has.
CallerIds ==
    {"1", MissingId} \cup ((IdsOf(Items) \cup IdsOf(Source)) \ {"1", "2", "3"})

TodosFacade_toggleTodo ==
    \E id \in CallerIds : FacadeDispatch(toggleTodo(id), now, now)

TodosFacade_deleteTodo ==
    \E id \in CallerIds : FacadeDispatch(deleteTodo(id), now, now)

\* A data source call settles: its observable emits its value and completes,
\* or fails with a reason.  A notification of a call the effect has
\* unsubscribed from reaches nobody.
Settle(c, n) ==
    LET r == InnerPipe(c.lane, n) IN
    IF c.subscribed /\ ~r.fault /\ r.out # <<>>
    THEN /\ Dispatch(r.out[1], calls \ {c}, now, now)
         /\ ev' = Event("settle", c.lane, TRUE, c.latest, n, NoAction, r.out)
         /\ UNCHANGED <<now, faulted, ncmd>>
         /\ UNCHANGED <<tableVars, sorting>>
    ELSE /\ calls' = calls \ {c}
         /\ faulted' = IF c.subscribed /\ r.fault THEN faulted \cup {c.lane} ELSE faulted
         /\ ev' = Event("settle", c.lane, c.subscribed, c.latest, n, NoAction, <<>>)
         /\ UNCHANGED <<state, mockTodos, heap, now, ncmd>>
         /\ UNCHANGED <<tableVars, sorting>>

SettleNext == \E c \in calls : Settle(c, Next_(c.value))

SettleError == \E c \in calls : \E m \in Messages : Settle(c, Error_(m))

Next ==
    \/ TodosFacade_loadTodos
    \/ TodosFacade_addTodo
    \/ TodosFacade_toggleTodo
    \/ TodosFacade_deleteTodo
    \/ SettleNext
    \/ SettleError

Spec == Init /\ [][Next]_vars

\* -------------------------------------------------- callers of the facade
\* Titles that are empty or white space only.
BlankTitles == {"", " "}

\* What the user can have typed in the input of the Todos component.
NewTitles == BlankTitles \cup Titles \cup {" Write tests "}

\* String.prototype.trim on the strings of NewTitles.
trim(s) ==
    CASE s \in BlankTitles -> ""
      [] s = " Write tests " -> "Write tests"
      [] OTHER -> s

\* Todos.add(): return if the trimmed input is empty, else call the facade
\* with the trimmed input.
Todos_add ==
    \E newTitle \in NewTitles :
        IF trim(newTitle) = ""
        THEN /\ ncmd < MaxCommands
             /\ ncmd' = ncmd + 1
             /\ ev' = Event("call", "none", FALSE, FALSE, Next_(<<>>), NoAction, <<>>)
             /\ UNCHANGED <<state, mockTodos, heap, now, calls, faulted>>
             /\ UNCHANGED <<tableVars, sorting>>
        ELSE \E t1, t2 \in Instants :
                TodosFacade_addTodoOf(trim(newTitle), t1, t2)

\* TodosFacade.addTodo called with a blank title by a caller that is not
\* Todos.add().
TodosFacade_addTodoBlank ==
    \E title \in BlankTitles : \E t1, t2 \in Instants :
        TodosFacade_addTodoOf(title, t1, t2)

NextCallers ==
    \/ Next
    \/ Todos_add
    \/ TodosFacade_addTodoBlank

\* The store with the Todos component, and with callers that hand the facade
\* any title.
SpecCallers == Init /\ [][NextCallers]_vars

\* ----------------------------------------------------------------- claims
\* The action types that require I/O.
IOTypes == {loadTodos.type, addTodo("").type, toggleTodo("").type, deleteTodo("").type}
SuccessType == loadTodosSuccess(<<>>).type
FailureType == loadTodosFailure("").type

\* The actions dispatched in the last step, by a caller or by an effect.
Dispatched(e) == (IF e.kind = "call" THEN {e.action} ELSE {}) \cup Range(e.out)

\* The array of the service's records at the addresses as.
Records(as) == [i \in DOMAIN as |-> Alias(as[i])]

\* The lanes in which the last step dispatched an action or settled a call.
TouchedLanes == {ev.lane} \cup {ofType(a) : a \in Dispatched(ev)}

\* C1: when a fetch superseded by a later LoadRequested settles, with success
\* or failure, nothing is dispatched, no data source call is made and the
\* store state stays what it was; a settlement of the load lane dispatches a
\* LoadSucceeded or a LoadFailed only when it is the latest fetch that settles.
C1_LoadSupersession ==
    [][ (ev'.kind = "settle" /\ ev'.lane = "load") =>
            IF ev'.latest
            THEN /\ Len(ev'.out) = 1
                 /\ ev'.out[1].type \in {SuccessType, FailureType}
            ELSE /\ ev'.out = <<>>
                 /\ state' = state
                 /\ Items' = Items
                 /\ calls' \subseteq calls
                 /\ UNCHANGED <<mockTodos, heap>> ]_vars

\* A superseded fetch has settled while the latest one is still in flight.
C1_Witness ==
    /\ ev.kind = "settle" /\ ev.lane = "load" /\ ~ev.latest
    /\ state.loading
    /\ \E c \in calls : c.lane = "load" /\ c.latest

\* C2: no two records in items have the same id.
C2_NoDuplicateIds ==
    \A i, j \in DOMAIN Items : i # j => Items[i].id # Items[j].id

\* C3: while loading is true the fetch of the latest LoadRequested has not
\* settled; and the step that reduces a LoadFailed, setting error, leaves
\* loading false.
C3_LoadingMeansFetchOutstanding ==
    /\ state.loading => \E c \in calls : c.lane = "load" /\ c.latest
    /\ \A a \in Dispatched(ev) :
          a.type = FailureType => state.error = a.error /\ ~state.loading

\* The latest fetch has failed: loading is false again and error is set.
C3_Witness ==
    /\ ev.kind = "settle" /\ ev.lane = "load" /\ ev.latest /\ ~ev.ok
    /\ ~state.loading
    /\ state.error # null

\* C4: a failure of a data source operation of a request that has not been
\* superseded is dispatched as exactly one LoadFailed with the failure's
\* reason, which the reducer stores; no effect is ever ended by a fault.
C4_FailuresBecomeLoadFailed ==
    /\ faulted = {}
    /\ (ev.kind = "settle" /\ ev.latest /\ ~ev.ok) =>
          /\ ev.out = <<loadTodosFailure(ev.message)>>
          /\ state.error = Some(ev.message)

\* A delete that was not superseded has failed.
C4_Witness ==
    /\ ev.kind = "settle" /\ ev.lane = "delete" /\ ev.latest /\ ~ev.ok
    /\ state.error = Some(ev.message)

\* C5: in the add, toggle and delete lanes an effect is subscribed to exactly
\* the latest call of its lane, so to one call at most, and a settlement
\* dispatches one follow-up if the call is the latest of its lane and none if
\* a later command of the lane has superseded it.
C5_SameLaneSupersession ==
    /\ \A c \in calls : c.lane \in MutationLanes => (c.subscribed <=> c.latest)
    /\ \A l \in MutationLanes :
          Cardinality({c \in calls : c.lane = l /\ c.subscribed}) <= 1
    /\ (ev.kind = "settle" /\ ev.lane \in MutationLanes) =>
          Len(ev.out) = (IF ev.latest THEN 1 ELSE 0)

\* A superseded toggle has settled while the toggle that superseded it is
\* still in flight.
C5_Witness ==
    /\ ev.kind = "settle" /\ ev.lane = "toggle" /\ ~ev.latest
    /\ ev.out = <<>>
    /\ \E c \in calls : c.lane = "toggle" /\ c.subscribed

\* C6: a step that neither dispatches an action of a call's lane nor settles
\* a call of that lane leaves the call subscribed, and the settlement of a
\* subscribed add, toggle or delete call dispatches one follow-up whatever
\* the other lanes have in flight.
C6_LanesIndependent ==
    [][ \A c \in calls :
           /\ (c.subscribed /\ c.lane \notin TouchedLanes') => c \in calls'
           /\ ( /\ c.subscribed /\ c.lane \in MutationLanes
                /\ ev'.kind = "settle" /\ ev'.lane = c.lane
                /\ c \notin calls' ) => Len(ev'.out) = 1 ]_vars

\* An add has settled and dispatched its follow-up while a toggle and a
\* delete are in flight, both still subscribed.
C6_Witness ==
    /\ ev.kind = "settle" /\ ev.lane = "add" /\ Len(ev.out) = 1
    /\ \E c \in calls : c.lane = "toggle" /\ c.subscribed
    /\ \E c \in calls : c.lane = "delete" /\ c.subscribed

\* C7 as stated: every dispatched action that requires I/O invokes one data
\* source operation, and every settlement dispatches one follow-up.
C7_OneFollowUpPerCommand ==
    /\ ev.invoked = Cardinality({a \in Dispatched(ev) : a.type \in IOTypes})
    /\ ev.kind = "settle" => Len(ev.out) = 1

\* C7, amended: every dispatched action that requires I/O invokes one data
\* source operation; the settlement of that operation dispatches one
\* follow-up if no later action of the same lane has superseded the request,
\* and none if one has.
C7_OneFollowUpUnlessSuperseded ==
    /\ ev.invoked = Cardinality({a \in Dispatched(ev) : a.type \in IOTypes})
    /\ \A a \in Dispatched(ev) :
          a.type \in IOTypes =>
             Cardinality({c \in calls : c.lane = ofType(a) /\ c.latest}) = 1
    /\ ev.kind = "settle" => Len(ev.out) = (IF ev.latest THEN 1 ELSE 0)

\* The later of two overlapping adds has settled and its follow-up has
\* started a fetch; the add it superseded is still in flight.
C7_Witness ==
    /\ ev.kind = "settle" /\ ev.lane = "add" /\ ev.latest
    /\ ev.out = <<loadTodos>>
    /\ ev.invoked = 1
    /\ \E c \in calls : c.lane = "add" /\ ~c.latest

\* C8: a dispatched LoadRequested makes one getTodos call, whose value is the
\* service's collection; when the latest fetch succeeds the one action
\* dispatched is LoadSucceeded with the records it returned, in their order,
\* which become the store's items; when it fails the one action dispatched
\* is LoadFailed with the reason.
C8_LoadOutcome ==
    /\ loadTodos \in Dispatched(ev) =>
          /\ ev.invoked = 1
          /\ \E c \in calls :
                /\ c.lane = "load" /\ c.latest /\ c.subscribed
                /\ c.op = "getTodos"
                /\ c.value = mockTodos
    /\ (ev.kind = "settle" /\ ev.lane = "load" /\ ev.latest) =>
          IF ev.ok
          THEN /\ ev.out = <<loadTodosSuccess(Records(ev.value))>>
               /\ state.todos = Records(ev.value)
               /\ Items = [i \in DOMAIN ev.value |-> heap[ev.value[i]]]
          ELSE ev.out = <<loadTodosFailure(ev.message)>>

\* A fetch made after an add has succeeded: the store holds four records.
C8_Witness ==
    /\ ev.kind = "settle" /\ ev.lane = "load" /\ ev.latest /\ ev.ok
    /\ Len(state.todos) = 4

\* The service operation an action asks for, and the action's own argument.
OperationFor(a) ==
    CASE a.type = addTodo("").type -> [op |-> "addTodo", arg |-> a.title]
      [] a.type = toggleTodo("").type -> [op |-> "toggleTodo", arg |-> a.id]
      [] a.type = deleteTodo("").type -> [op |-> "deleteTodo", arg |-> a.id]
      [] OTHER -> [op |-> "getTodos", arg |-> ""]

\* C9: an AddRequested, ToggleRequested or DeleteRequested calls addTodo,
\* toggleTodo or deleteTodo with its own title or id; when a call that has
\* not been superseded succeeds, the one action dispatched is LoadRequested
\* and the step leaves the store's items as they were; when it fails, the
\* one action dispatched is LoadFailed.
C9_MutationOutcome ==
    [][ /\ (ev'.kind = "call" /\ ev'.lane \in MutationLanes) =>
              \E c \in calls' :
                 /\ c.lane = ev'.lane /\ c.latest /\ c.subscribed
                 /\ c.op = OperationFor(ev'.action).op
                 /\ c.arg = OperationFor(ev'.action).arg
        /\ (ev'.kind = "settle" /\ ev'.lane \in MutationLanes /\ ev'.latest) =>
              /\ ev'.out = (IF ev'.ok THEN <<loadTodos>>
                                     ELSE <<loadTodosFailure(ev'.message)>>)
              /\ state'.todos = state.todos
              /\ Items' = Items ]_vars

\* An add has succeeded: a fetch is started, and the store still holds the
\* record the reducer appended, not the service's collection.
C9_Witness ==
    /\ ev.kind = "settle" /\ ev.lane = "add" /\ ev.latest /\ ev.ok
    /\ state.loading
    /\ Len(state.todos) = 1
    /\ Len(mockTodos) = 4

\* C10: a step that reduces LoadRequested ends with loading true and error
\* absent, and with the items it began with.
C10_LoadRequestedReduction ==
    [][ (loadTodos \in Dispatched(ev')) =>
           ( /\ state'.loading
             /\ state'.error = null
             /\ state'.todos = state.todos
             /\ Items' = Items ) ]_vars

\* LoadRequested has been reduced in a state that holds records.
C10_Witness ==
    /\ ev.kind = "call" /\ ev.action = loadTodos
    /\ state.loading /\ state.error = null
    /\ state.todos # <<>>

\* The records of a store state s, by value, read in heap hp.
ItemsOf(s, hp) == [i \in DOMAIN s.todos |-> ValIn(hp, s.todos[i])]

\* The actions of every type the reducer handles, over the titles, ids and
\* reasons of the model and the payloads a fetch can carry.
Commands ==
    {loadTodos, loadTodosSuccess(<<>>), loadTodosSuccess(Records(mockTodos))}
        \cup {loadTodosFailure(m) : m \in Messages}
        \cup {addTodo(title) : title \in Titles}
        \cup {toggleTodo(id) : id \in CallerIds}
        \cup {deleteTodo(id) : id \in CallerIds}

\* The store reducing action a, Date.now() returning t, with no effect
\* listening: the reducer on its own.
Reduce(a, t) ==
    /\ ncmd < MaxCommands
    /\ now <= t
    /\ ncmd' = ncmd + 1
    /\ state' = todosReducer(state, a, t, heap)
    /\ now' = t
    /\ ev' = [Event("reduce", "none", FALSE, FALSE, Next_(<<>>), a, <<>>)
                EXCEPT !.invoked = 0]
    /\ UNCHANGED <<mockTodos, heap, calls, faulted>>
    /\ UNCHANGED <<tableVars, sorting>>

ReduceLoadTodos == Reduce(loadTodos, now)

ReduceLoadTodosSuccess ==
    \E a \in Commands : a.type = loadTodosSuccess(<<>>).type /\ Reduce(a, now)

ReduceLoadTodosFailure ==
    \E a \in Commands : a.type = loadTodosFailure("").type /\ Reduce(a, now)

ReduceAddTodo ==
    \E a \in Commands : \E t \in Instants :
        a.type = addTodo("").type /\ Reduce(a, t)

ReduceToggleTodo ==
    \E a \in Commands : a.type = toggleTodo("").type /\ Reduce(a, now)

ReduceDeleteTodo ==
    \E a \in Commands : a.type = deleteTodo("").type /\ Reduce(a, now)

NextReducer ==
    \/ ReduceLoadTodos
    \/ ReduceLoadTodosSuccess
    \/ ReduceLoadTodosFailure
    \/ ReduceAddTodo
    \/ ReduceToggleTodo
    \/ ReduceDeleteTodo

\* The reducer applied to any sequence of the actions, from initialState.
SpecReducer == Init /\ [][NextReducer]_vars

\* Sequences of one and of two actions.
CommandSeqs == {<<a>> : a \in Commands} \cup (Commands \X Commands)

\* What Date.now() can return in n successive reductions from now on.
Readings(n) ==
    {ts \in [1..n -> Instants] :
        /\ \A i \in 1..n : now <= ts[i]
        /\ \A i \in 1..(n - 1) : ts[i] <= ts[i + 1]}

\* The store reducing the actions as from state s, the i-th reduction reading
\* ts[i] from the clock.
RECURSIVE Replay(_, _, _)
Replay(s, as, ts) ==
    IF as = <<>> THEN s
    ELSE Replay(todosReducer(s, Head(as), Head(ts), heap), Tail(as), Tail(ts))

\* C11: two replays of the same sequence of actions from the same state end
\* in the same state, the ids of the records included.
C11_ReduceDeterministic ==
    \A as \in CommandSeqs :
        \A ts1, ts2 \in Readings(Len(as)) :
            Replay(state, as, ts1) = Replay(state, as, ts2)

\* Every id a record of the store or of the service has, and one none has.
KnownIds == IdsOf(Items) \cup IdsOf(Source) \cup {MissingId}

\* The store state after reducing toggleTodo(id) in state s, read in heap hp.
Toggled(s, id, hp) == todosReducer(s, toggleTodo(id), now, hp)

\* The service's heap after toggleTodo(id) was called with heap hp.
ServiceToggled(hp, id) == TodosService_toggleTodo(mockTodos, hp, id).heap

\* C12: reducing ToggleRequested(id) twice in succession gives back the
\* items, by value and in order, that the state had: each record's completed,
\* id and title.  This holds for the reducer alone, and for two dispatches,
\* where the service changes its own record after each reduction.
C12_ToggleTwiceRestores ==
    LET items == Items IN
    \A id \in KnownIds :
        LET once == Toggled(state, id, heap)
            hp1 == ServiceToggled(heap, id)
            hp2 == ServiceToggled(hp1, id)
        IN  /\ ItemsOf(Toggled(once, id, heap), heap) = items
            /\ ItemsOf(Toggled(once, id, hp1), hp2) = items

\* ToggleRequested("1") has been reduced twice in succession on the loaded
\* records: the first record is a copy the reducer made, and it is completed
\* again, as it was.
C12_Witness ==
    /\ ev.kind = "reduce" /\ ev.action = toggleTodo("1")
    /\ ncmd = 3
    /\ Len(Items) = 3
    /\ Items[1] = [id |-> "1", title |-> "Learn Angular", completed |-> TRUE]
    /\ state.todos[1].ref = 0
    /\ ItemsOf(Toggled(state, "1", heap), heap)[1].completed = FALSE

\* C13: reducing ToggleRequested(id) negates completed of every record whose
\* id is id and changes nothing else: the other entries are the entries they
\* were, items keeps its length and order, every record keeps its id and
\* title, loading and error are kept; with no record of that id the state is
\* the state it was.  After a step that reduced it, the records of that id
\* are objects the reducer made.
C13_ToggleFrame ==
    /\ LET items == Items IN
       \A id \in KnownIds :
          LET s2 == Toggled(state, id, heap)
              after == ItemsOf(s2, heap)
          IN  /\ Len(after) = Len(items)
              /\ \A i \in DOMAIN items :
                    /\ after[i].id = items[i].id
                    /\ after[i].title = items[i].title
                    /\ after[i].completed =
                          (IF items[i].id = id THEN ~items[i].completed
                                               ELSE items[i].completed)
                    /\ items[i].id # id => s2.todos[i] = state.todos[i]
              /\ s2.loading = state.loading
              /\ s2.error = state.error
              /\ id \notin IdsOf(items) => s2 = state
    /\ ev.action.type = toggleTodo("").type =>
          \A i \in DOMAIN Items :
              Items[i].id = ev.action.id => state.todos[i].ref = 0

\* ToggleRequested("1") has been reduced on the three loaded records: the
\* first is a changed copy, the second and third are the records they were.
C13_Witness ==
    /\ ev.kind = "reduce" /\ ev.action = toggleTodo("1")
    /\ state.todos = <<Own("1", "Learn Angular", FALSE), Alias(2), Alias(3)>>

\* The store state after reducing deleteTodo(id) in state s, read in heap hp.
Deleted(s, id, hp) == todosReducer(s, deleteTodo(id), now, hp)

\* The positions of the records items whose id is not id.
Kept(items, id) == {i \in DOMAIN items : items[i].id # id}

\* The k-th position of the set of positions kept.
KeptAt(kept, k) ==
    CHOOSE i \in kept : Cardinality({j \in kept : j <= i}) = k

\* C14: reducing DeleteRequested(id) removes every record whose id is id and
\* changes nothing else: the entries left are the other entries, the ones
\* they were and in the order they had, loading and error are kept; with no
\* record of that id the state is the state it was.  After a step that
\* reduced it, no record of items has the id.
C14_DeleteFrame ==
    /\ LET items == Items IN
       \A id \in KnownIds :
          LET s2 == Deleted(state, id, heap)
              kept == Kept(items, id)
          IN  /\ Len(s2.todos) = Cardinality(kept)
              /\ \A k \in DOMAIN s2.todos :
                    s2.todos[k] = state.todos[KeptAt(kept, k)]
              /\ s2.loading = state.loading
              /\ s2.error = state.error
              /\ id \notin IdsOf(items) => s2 = state
    /\ ev.action.type = deleteTodo("").type =>
          ev.action.id \notin IdsOf(Items)

\* DeleteRequested("1") has been reduced on the three loaded records: the
\* second and third are left, in their order.
C14_Witness ==
    /\ ev.kind = "reduce" /\ ev.action = deleteTodo("1")
    /\ state.todos = <<Alias(2), Alias(3)>>

\* The store state after reducing addTodo(title) in state s, Date.now()
\* returning t.
Added(s, title, t) == todosReducer(s, addTodo(title), t, heap)

\* C15: reducing AddRequested(title) gives the items the state had followed
\* by one new record with the title, completed false and an id that no
\* record of the items had; loading and error are kept.
C15_AddAppendsFreshRecord ==
    \A title \in Titles : \A t \in Instants :
        now <= t =>
            LET s2 == Added(state, title, t)
                n == Len(state.todos)
                newTodo == ItemsOf(s2, heap)[n + 1]
            IN  /\ Len(s2.todos) = n + 1
                /\ SubSeq(s2.todos, 1, n) = state.todos
                /\ newTodo.title = title
                /\ newTodo.completed = FALSE
                /\ newTodo.id \notin IdsOf(Items)
                /\ s2.loading = state.loading
                /\ s2.error = state.error

\* The arrays a LoadSucceeded can carry: none of the records, the service's
\* collection, and what each fetch in flight will emit.
Payloads ==
    {<<>>, Records(mockTodos)}
        \cup {Records(c.value) : c \in {x \in calls : x.lane = "load"}}

\* C16: reducing LoadSucceeded(items) makes the state's items the payload,
\* whatever they were, sets loading false and keeps error.  After a step
\* that reduced it the store holds the records of the payload and no record
\* the reducer made, and loading is false.
C16_LoadSucceededReduction ==
    /\ \A todos \in Payloads :
          LET s2 == todosReducer(state, loadTodosSuccess(todos), now, heap) IN
          /\ s2.todos = todos
          /\ ~s2.loading
          /\ s2.error = state.error
    /\ ev.action.type = SuccessType =>
          /\ state.todos = ev.action.todos
          /\ \A i \in DOMAIN state.todos : state.todos[i].ref # 0
          /\ ~state.loading

\* LoadSucceeded with the service's three records has been reduced after an
\* AddRequested and a LoadFailed: the store holds the three records, not the
\* record the reducer appended, and error is still the reason.
C16_Witness ==
    /\ ev.kind = "reduce" /\ ev.action = loadTodosSuccess(Records(<<1, 2, 3>>))
    /\ ncmd = 3
    /\ now = 11
    /\ state.todos = Records(<<1, 2, 3>>)
    /\ ~state.loading
    /\ state.error = Some("offline")

\* C17: reducing LoadFailed(reason) sets loading false and error to the
\* reason and keeps items; every effect maps a failure to that same action,
\* and after a step that reduced it loading is false and error is the
\* reason.
C17_LoadFailedReduction ==
    /\ \A m \in Messages :
          LET s2 == todosReducer(state, loadTodosFailure(m), now, heap) IN
          /\ ~s2.loading
          /\ s2.error = Some(m)
          /\ s2.todos = state.todos
          /\ \A lane \in Lanes :
                InnerPipe(lane, Error_(m)) = Emits(loadTodosFailure(m))
    /\ ev.action.type = FailureType =>
          /\ ~state.loading
          /\ state.error = ev.action.error

\* LoadFailed has been reduced after an AddRequested: loading is false,
\* error is the reason, and the record the reducer appended is still in
\* items.
C17_Witness ==
    /\ ev.kind = "reduce" /\ ev.action = loadTodosFailure("offline")
    /\ ~state.loading
    /\ state.error = Some("offline")
    /\ Len(state.todos) = 1 /\ state.todos[1].ref = 0

\* Ids that neither a record of the store nor a record of the service has.
AbsentIds ==
    ({MissingId, "1", "2", "3"} \cup {DateNowToString(t) : t \in Instants})
        \ (IdsOf(Items) \cup IdsOf(Source))

\* C18: for a ToggleRequested or DeleteRequested naming an id that neither
\* items nor the service's collection holds, the reducer leaves the state as
\* it is, the service leaves its collection as it is and emits undefined (for
\* toggle) or false (for delete) as a value, not as an error, the effect maps
\* that value to LoadRequested, not to LoadFailed, and reducing the follow-up
\* leaves error absent.  A step that dispatches such a command puts that call
\* in flight, and a toggle or delete call that settles with its value is
\* followed by LoadRequested, with error absent.
C18_NotFoundIsSilent ==
    /\ \A id \in AbsentIds : \A a \in {toggleTodo(id), deleteTodo(id)} :
          LET r == Invoke(Project(a), now, mockTodos, heap)
              n == Next_(r.value)
          IN  /\ todosReducer(state, a, now, heap) = state
              /\ r.mockTodos = mockTodos
              /\ r.heap = heap
              /\ r.value = <<>> /\ ~r.removed
              /\ n.ok
              /\ InnerPipe(ofType(a), n) = Emits(loadTodos)
              /\ todosReducer(state, loadTodos, now, heap).error = null
    /\ ( /\ ev.kind = "call" /\ ev.lane \in {"toggle", "delete"}
         /\ ev.action.id = MissingId ) =>
          \E c \in calls :
              /\ c.lane = ev.lane /\ c.subscribed /\ c.arg = MissingId
              /\ c.value = <<>> /\ ~c.removed
    /\ ( /\ ev.kind = "settle" /\ ev.lane \in {"toggle", "delete"}
         /\ ev.subscribed /\ ev.ok ) =>
          /\ ev.out = <<loadTodos>>
          /\ state.error = null

\* After the records were loaded, a toggle of an id nobody holds has settled
\* with undefined: the follow-up is LoadRequested, error is absent, and the
\* store and the service hold the three records they held.
C18_Witness ==
    /\ ev.kind = "settle" /\ ev.lane = "toggle" /\ ev.subscribed /\ ev.ok
    /\ ev.value = <<>>
    /\ ev.out = <<loadTodos>>
    /\ ncmd = 2
    /\ state.error = null
    /\ state.todos = <<Alias(1), Alias(2), Alias(3)>>
    /\ mockTodos = <<1, 2, 3>>
    /\ heap[1].completed

\* C19: a step in which the facade's addTodo is called with an empty or
\* white-space-only title dispatches no action, makes no data source call
\* and leaves the store state and the service's collection as they were.
C19_BlankAddIsNoOp ==
    [][ TodosFacade_addTodoBlank =>
            ( /\ Dispatched(ev') = {}
              /\ ev'.invoked = 0
              /\ state' = state
              /\ calls' = calls
              /\ UNCHANGED <<mockTodos, heap>> ) ]_vars

\* C20: an error that is set stays as it is in every step that reduces
\* neither a LoadRequested, which clears it, nor a LoadFailed, which sets its
\* own reason; a step that dispatches a LoadFailed calls the data source for
\* nothing, and the data source is called only in a step where a caller
\* dispatches a command or where an add, toggle or delete that succeeded is
\* followed by its fetch: never in the settlement of a call that failed.
C20_ErrorStaysNoRetry ==
    [][ /\ (state.error # null /\ state'.error # state.error) =>
              \/ loadTodos \in Dispatched(ev') /\ state'.error = null
              \/ \E a \in Dispatched(ev') :
                    a.type = FailureType /\ state'.error = a.error
        /\ (\E a \in Dispatched(ev') : a.type = FailureType) =>
              /\ ev'.invoked = 0
              /\ calls' \subseteq calls
              /\ UNCHANGED <<mockTodos, heap>>
        /\ (ev'.invoked > 0 \/ ~(calls' \subseteq calls)) =>
              \/ ev'.kind = "call"
              \/ ev'.kind = "settle" /\ ev'.ok /\ ev'.lane \in MutationLanes ]_vars

\* The first command failed and nothing was called for it again: the caller's
\* next command, a delete, is the only call in flight, and error is still the
\* reason of the failure.
C20_Witness ==
    /\ ev.kind = "call" /\ ev.lane = "delete"
    /\ ncmd = 2
    /\ state.error = Some("offline")
    /\ Cardinality(calls) = 1

\* C21: the store state changes only by the reducer reducing a dispatched
\* action: a step that dispatches nothing leaves the state and the value of
\* every record it holds as they were, a step that dispatches an action
\* leaves the state the reducer returns for it, and what the service does to
\* its own records in a step changes the value of no record the store holds
\* after the step: a record the service changed reaches the store with the
\* payload of a later LoadSucceeded.
C21_OnlyReducerChangesState ==
    [][ /\ Dispatched(ev') = {} => (state' = state /\ Items' = Items)
        /\ \A a \in Dispatched(ev') :
              \E t \in Instants : state' = todosReducer(state, a, t, heap)
        /\ ItemsOf(state', heap') = ItemsOf(state', heap) ]_vars

\* ToggleRequested("1") has been dispatched on the three loaded records,
\* which are the service's own objects: the service has flipped its record
\* in place, the store holds a copy of it flipped by the reducer, and the
\* other two entries are still the service's objects.
C21_Witness ==
    /\ ev.kind = "call" /\ ev.action = toggleTodo("1")
    /\ state.todos = <<Own("1", "Learn Angular", FALSE), Alias(2), Alias(3)>>
    /\ heap[1].completed = FALSE
    /\ \E c \in calls : c.lane = "toggle" /\ c.subscribed /\ c.value = <<1>>

\* -------------------------------------------------------------- selectors
\* The selectors of todos.selectors.ts, as functions of the feature state s;
\* hp is the heap the records' fields are read from.
selectAllTodos(s) == s.todos

selectCompletedTodos(s, hp) ==
    SelectSeq(selectAllTodos(s), LAMBDA todo : ValIn(hp, todo).completed)

\* selectActiveTodos without the filter.
selectActiveTodosUnfiltered(s, hp) == selectAllTodos(s)

selectActiveTodos(s, hp) ==
    SelectSeq(selectAllTodos(s), LAMBDA todo : ~ValIn(hp, todo).completed)

selectTodosLoading(s) == s.loading

selectTodosError(s) == s.error

selectTodosCount(s) == Len(selectAllTodos(s))

selectCompletedTodosCount(s, hp) == Len(selectCompletedTodos(s, hp))

\* C22: completedItems is the entries of items whose record is completed and
\* activeItems the entries whose record is not, each in the order of items;
\* count is the length of items and completedCount the length of
\* completedItems, so that count = completedCount + the length of
\* activeItems; allItems, loading and error are the fields of the state.
\* With the service's three records, of which the first alone is completed,
\* completedCount is 1 and activeItems is the second and the third.
C22_SelectorsPartitionItems ==
    LET items == Items
        done == {i \in DOMAIN items : items[i].completed}
        open == {i \in DOMAIN items : ~items[i].completed}
        completedItems == selectCompletedTodos(state, heap)
        activeItems == selectActiveTodos(state, heap)
    IN  /\ selectAllTodos(state) = state.todos
        /\ selectTodosLoading(state) = state.loading
        /\ selectTodosError(state) = state.error
        /\ Len(completedItems) = Cardinality(done)
        /\ \A k \in DOMAIN completedItems :
              completedItems[k] = state.todos[KeptAt(done, k)]
        /\ Len(activeItems) = Cardinality(open)
        /\ \A k \in DOMAIN activeItems :
              activeItems[k] = state.todos[KeptAt(open, k)]
        /\ selectTodosCount(state) = Len(items)
        /\ selectCompletedTodosCount(state, heap) = Len(completedItems)
        /\ selectTodosCount(state) =
              selectCompletedTodosCount(state, heap) + Len(activeItems)
        /\ ( /\ state.todos = Records(<<1, 2, 3>>)
             /\ [i \in 1..3 |-> items[i].completed] = <<TRUE, FALSE, FALSE>> ) =>
              /\ selectCompletedTodosCount(state, heap) = 1
              /\ activeItems = <<Alias(2), Alias(3)>>

\* The store holds the service's three records and a record the reducer
\* appended: one of the four is completed, three are active, in their order.
C22_Witness ==
    /\ Len(state.todos) = 4
    /\ SubSeq(state.todos, 1, 3) = Records(<<1, 2, 3>>)
    /\ selectTodosCount(state) = 4
    /\ selectCompletedTodosCount(state, heap) = 1
    /\ selectActiveTodos(state, heap) = SubSeq(state.todos, 2, 4)

(***************************************************************************)
(* The user table (user-table.component.ts).  The component holds eight    *)
(* users, a search box whose input is debounced, a sort column with a      *)
(* direction, and a page.  A string is a sequence of one-character         *)
(* strings.                                                                *)
(***************************************************************************)

User(id, name, email, age) ==
    [id |-> id, name |-> name, email |-> email, age |-> age]

mockUsers ==
    <<
       User(1,
            <<"A", "l", "i", "c", "e", " ", "J", "o", "h", "n", "s", "o", "n">>,
            <<"a", "l", "i", "c", "e", "@", "e", "x", "a", "m", "p", "l", "e", ".", "c", "o", "m">>,
            28),
       User(2,
            <<"B", "o", "b", " ", "S", "m", "i", "t", "h">>,
            <<"b", "o", "b", "@", "e", "x", "a", "m", "p", "l", "e", ".", "c", "o", "m">>,
            34),
       User(3,
            <<"C", "h", "a", "r", "l", "i", "e", " ", "B", "r", "o", "w", "n">>,
            <<"c", "h", "a", "r", "l", "i", "e", "@", "e", "x", "a", "m", "p", "l", "e", ".", "c", "o", "m">>,
            22),
       User(4,
            <<"D", "a", "v", "i", "d", " ", "W", "i", "l", "s", "o", "n">>,
            <<"d", "a", "v", "i", "d", "@", "e", "x", "a", "m", "p", "l", "e", ".", "c", "o", "m">>,
            30),
       User(5,
            <<"E", "v", "a", " ", "A", "d", "a", "m", "s">>,
            <<"e", "v", "a", "@", "e", "x", "a", "m", "p", "l", "e", ".", "c", "o", "m">>,
            27),
       User(6,
            <<"F", "r", "a", "n", "k", " ", "M", "i", "l", "l", "e", "r">>,
            <<"f", "r", "a", "n", "k", "@", "e", "x", "a", "m", "p", "l", "e", ".", "c", "o", "m">>,
            35),
       User(7,
            <<"G", "r", "a", "c", "e", " ", "L", "e", "e">>,
            <<"g", "r", "a", "c", "e", "@", "e", "x", "a", "m", "p", "l", "e", ".", "c", "o", "m">>,
            29),
       User(8,
            <<"H", "e", "n", "r", "y", " ", "F", "o", "r", "d">>,
            <<"h", "e", "n", "r", "y", "@", "e", "x", "a", "m", "p", "l", "e", ".", "c", "o", "m">>,
            33)
    >>

columnDefinitions ==
    << [key |-> "name",  label |-> "Name",  sortable |-> TRUE],
       [key |-> "email", label |-> "Email", sortable |-> FALSE],
       [key |-> "age",   label |-> "Age",   sortable |-> TRUE] >>

\* debounceTime(300)
DebounceWindow == 300

UpperCase ==
    <<"A", "B", "C", "D", "E", "F", "G", "H", "I", "J", "K", "L", "M", "N", "O", "P", "Q", "R", "S", "T", "U", "V", "W", "X", "Y", "Z">>

LowerCase ==
    <<"a", "b", "c", "d", "e", "f", "g", "h", "i", "j", "k", "l", "m", "n", "o", "p", "q", "r", "s", "t", "u", "v", "w", "x", "y", "z">>

WhiteSpace == {" "}

\* String.prototype.toLowerCase
toLowerCase(s) ==
    [i \in DOMAIN s |->
        IF \E k \in DOMAIN UpperCase : UpperCase[k] = s[i]
        THEN LowerCase[CHOOSE k \in DOMAIN UpperCase : UpperCase[k] = s[i]]
        ELSE s[i]]

RECURSIVE trimStart(_)
trimStart(s) ==
    IF s # <<>> /\ Head(s) \in WhiteSpace THEN trimStart(Tail(s)) ELSE s

RECURSIVE trimEnd(_)
trimEnd(s) ==
    IF s # <<>> /\ s[Len(s)] \in WhiteSpace
    THEN trimEnd(SubSeq(s, 1, Len(s) - 1))
    ELSE s

\* String.prototype.trim
String_trim(s) == trimEnd(trimStart(s))

\* String.prototype.includes
includes(s, t) ==
    \E k \in 0..(Len(s) - Len(t)) : SubSeq(s, k + 1, k + Len(t)) = t

\* filteredUsers with a term whose letters keep their case
filterUsersCaseSensitive(searchTerm_) ==
    LET term == searchTerm_
        matches(user) ==
            \/ includes(toLowerCase(user.name), term)
            \/ includes(toLowerCase(user.email), term)
    IN  IF String_trim(term) = <<>>
        THEN mockUsers
        ELSE SelectSeq(mockUsers, matches)

\* filteredUsers, as a function of the search term
filterUsers(searchTerm_) ==
    LET term == toLowerCase(searchTerm_)
        matches(user) ==
            \/ includes(toLowerCase(user.name), term)
            \/ includes(toLowerCase(user.email), term)
    IN  IF String_trim(term) = <<>>
        THEN mockUsers
        ELSE SelectSeq(mockUsers, matches)

\* The collation order of the characters that occur in the users' names
CollationOrder ==
    <<" ", ".", "@">> \o LowerCase

Weight(c) ==
    CHOOSE k \in DOMAIN CollationOrder : CollationOrder[k] = toLowerCase(<<c>>)[1]

Sign(n) == IF n < 0 THEN -1 ELSE IF n > 0 THEN 1 ELSE 0

\* The letters decide first, whatever their case
RECURSIVE compareLetters(_, _)
compareLetters(a, b) ==
    IF a = <<>> /\ b = <<>> THEN 0
    ELSE IF a = <<>> THEN -1
    ELSE IF b = <<>> THEN 1
    ELSE IF Weight(Head(a)) # Weight(Head(b))
         THEN Sign(Weight(Head(a)) - Weight(Head(b)))
         ELSE compareLetters(Tail(a), Tail(b))

\* and then the case of the first letter that differs: lower case first
RECURSIVE compareCase(_, _)
compareCase(a, b) ==
    IF a = <<>> \/ b = <<>> THEN 0
    ELSE IF Head(a) = Head(b) THEN compareCase(Tail(a), Tail(b))
    ELSE IF toLowerCase(<<Head(a)>>) = <<Head(a)>> THEN -1 ELSE 1

\* String.prototype.localeCompare
localeCompare(a, b) ==
    IF compareLetters(a, b) # 0 THEN compareLetters(a, b) ELSE compareCase(a, b)

StringColumns == {"name", "email"}

NumberColumns == {"id", "age"}

NoColumn == ""

\* the comparison function without the direction
compareUsersIgnoresDirection(a, b, column, direction) ==
    IF column \in StringColumns
    THEN localeCompare(a[column], b[column])
    ELSE IF column \in NumberColumns
    THEN a[column] - b[column]
    ELSE 0

\* the comparison function with text compared upwards in both directions
compareUsersTextAscending(a, b, column, direction) ==
    IF column \in StringColumns
    THEN localeCompare(a[column], b[column])
    ELSE IF column \in NumberColumns
    THEN IF direction = "asc"
         THEN a[column] - b[column]
         ELSE b[column] - a[column]
    ELSE 0

\* the comparison function sortedUsers hands to Array.prototype.sort
compareUsers(a, b, column, direction) ==
    IF column \in StringColumns
    THEN IF direction = "asc"
         THEN localeCompare(a[column], b[column])
         ELSE localeCompare(b[column], a[column])
    ELSE IF column \in NumberColumns
    THEN IF direction = "asc"
         THEN a[column] - b[column]
         ELSE b[column] - a[column]
    ELSE 0

\* Array.prototype.sort, which is stable: each element goes behind the
\* elements that do not compare greater than it
RECURSIVE Array_sort(_, _, _)
Array_sort(users, column, direction) ==
    IF users = <<>> THEN <<>>
    ELSE LET n == Len(users)
             front == Array_sort(SubSeq(users, 1, n - 1), column, direction)
             k == Cardinality({i \in DOMAIN front :
                     compareUsers(front[i], users[n], column, direction) <= 0})
         IN  SubSeq(front, 1, k) \o <<users[n]>> \o SubSeq(front, k + 1, n - 1)

\* sortedUsers, as a function of the users to sort, the column and the direction
sortUsers(users, column, direction) ==
    IF column = NoColumn THEN users ELSE Array_sort(users, column, direction)

\* Array.prototype.slice
Array_slice(s, start, end) ==
    LET at(i) == IF i < 0
                 THEN (IF Len(s) + i < 0 THEN 0 ELSE Len(s) + i)
                 ELSE (IF i > Len(s) THEN Len(s) ELSE i)
    IN  SubSeq(s, at(start) + 1, at(end))

\* Math.ceil(n / d) for d > 0 and n >= 0
Math_ceil(n, d) == IF n % d = 0 THEN n \div d ELSE n \div d + 1

\* The search box's inputs
Queries ==
    { <<>>, <<" ", " ">>, <<"e">>, <<"E">>, <<"z", "z">>, <<"j">> }

Columns == {"id", "name", "email", "age"}

Directions == {"asc", "desc"}

\* The computed signals are functions of the signals they read; the tables
\* hold their values for every value of those signals.
FilteredUsers == [q \in Queries |-> filterUsers(q)]

SortedUsers ==
    [q \in Queries, c \in Columns, d \in Directions |->
        sortUsers(FilteredUsers[q], c, d)]

filteredUsers == FilteredUsers[searchTerm]

sortedUsers == SortedUsers[searchTerm, sortColumn, sortDirection]

\* paginatedUsers with a slice of the records before they are sorted
paginatedUsersUnsorted ==
    LET start == (currentPage - 1) * pageSize
    IN  Array_slice(filteredUsers, start, start + pageSize)

paginatedUsers ==
    LET start == (currentPage - 1) * pageSize
    IN  Array_slice(sortedUsers, start, start + pageSize)

totalPages == Math_ceil(Len(sortedUsers), pageSize)

hasPreviousPage == currentPage > 1

hasNextPage == currentPage < totalPages

\* page: the page asked for, or the page that was current when a query was
\* committed; cancelled and waited: the value an input found waiting, if any,
\* and the time it had waited
TableEvent(kind, value, page, column) ==
    [kind |-> kind, value |-> value, page |-> page, column |-> column,
     cancelled |-> null, waited |-> 0]

\* onSearchInput with a debounce that lets the first value of a burst wait on
\* and does not start its wait again
onSearchInputKeepsTimer(value) ==
    /\ IF destroyed \/ lastValue # null
       THEN UNCHANGED <<lastValue, elapsed>>
       ELSE lastValue' = Some(value) /\ elapsed' = 0
    /\ tev' = [TableEvent("input", value, 0, "")
                  EXCEPT !.cancelled = null, !.waited = elapsed]
    /\ UNCHANGED <<searchTerm, currentPage, pageSize, sortColumn, sortDirection,
                   previous, destroyed>>
    /\ UNCHANGED <<storeVars, sorting>>

\* takeUntil(destroy$) has ended the subscription: the subject has no observer
\* left.  Otherwise debounceTime keeps the value and starts its wait again.
onSearchInput(value) ==
    /\ IF destroyed
       THEN UNCHANGED <<lastValue, elapsed>>
       ELSE lastValue' = Some(value) /\ elapsed' = 0
    /\ tev' = [TableEvent("input", value, 0, "")
                  EXCEPT !.cancelled = IF destroyed THEN null ELSE lastValue,
                         !.waited = elapsed]
    /\ UNCHANGED <<searchTerm, currentPage, pageSize, sortColumn, sortDirection,
                   previous, destroyed>>
    /\ UNCHANGED <<storeVars, sorting>>

\* The steps in which time may pass while a value waits
Delays == {100, 200, 300}

\* Time passes while a value waits, up to the moment its timer is due
Wait ==
    \E d \in Delays :
        /\ lastValue # null
        /\ elapsed + d <= DebounceWindow
        /\ elapsed' = elapsed + d
        /\ tev' = TableEvent("wait", <<>>, 0, "")
        /\ UNCHANGED <<searchTerm, currentPage, pageSize, sortColumn,
                       sortDirection, lastValue, previous, destroyed>>
        /\ UNCHANGED <<storeVars, sorting>>

\* distinctUntilChanged(): a value passes unless it is identical (===) to the
\* one that passed last; the first value passes
distinctUntilChanged(value) == previous # Some(value)

\* debounceTime with a subscriber that sets the term and leaves the page
debounceTimeKeepsPage ==
    /\ lastValue # null
    /\ elapsed = DebounceWindow
    /\ LET term == lastValue[1]
       IN  IF distinctUntilChanged(term)
           THEN /\ previous' = Some(term)
                /\ searchTerm' = term
                /\ UNCHANGED currentPage
                /\ tev' = TableEvent("commit", term, currentPage, "")
           ELSE /\ UNCHANGED <<previous, searchTerm, currentPage>>
                /\ tev' = TableEvent("drop", term, 0, "")
    /\ lastValue' = null
    /\ elapsed' = 0
    /\ UNCHANGED <<pageSize, sortColumn, sortDirection, destroyed>>
    /\ UNCHANGED <<storeVars, sorting>>

\* The debounce timer is due: the waiting value goes to distinctUntilChanged
\* and, if it passes, to the subscriber, which sets the term and the page
debounceTime ==
    /\ lastValue # null
    /\ elapsed = DebounceWindow
    /\ LET term == lastValue[1]
       IN  IF distinctUntilChanged(term)
           THEN /\ previous' = Some(term)
                /\ searchTerm' = term
                /\ currentPage' = 1
                /\ tev' = TableEvent("commit", term, currentPage, "")
           ELSE /\ UNCHANGED <<previous, searchTerm, currentPage>>
                /\ tev' = TableEvent("drop", term, 0, "")
    /\ lastValue' = null
    /\ elapsed' = 0
    /\ UNCHANGED <<pageSize, sortColumn, sortDirection, destroyed>>
    /\ UNCHANGED <<storeVars, sorting>>

\* ngOnDestroy with a pipe that has no takeUntil: the timer runs on
ngOnDestroyKeepsSubscription ==
    /\ ~destroyed
    /\ destroyed' = TRUE
    /\ UNCHANGED <<lastValue, elapsed>>
    /\ tev' = [TableEvent("destroy", <<>>, 0, "")
                  EXCEPT !.cancelled = lastValue, !.waited = elapsed]
    /\ UNCHANGED <<searchTerm, currentPage, pageSize, sortColumn, sortDirection,
                   previous>>
    /\ UNCHANGED <<storeVars, sorting>>

\* destroy$ emits: takeUntil completes and unsubscribes from debounceTime,
\* which drops the value that waits
ngOnDestroy ==
    /\ ~destroyed
    /\ destroyed' = TRUE
    /\ lastValue' = null
    /\ elapsed' = 0
    /\ tev' = [TableEvent("destroy", <<>>, 0, "")
                  EXCEPT !.cancelled = lastValue, !.waited = elapsed]
    /\ UNCHANGED <<searchTerm, currentPage, pageSize, sortColumn, sortDirection,
                   previous>>
    /\ UNCHANGED <<storeVars, sorting>>

Sortable(column) ==
    \E k \in DOMAIN columnDefinitions :
        columnDefinitions[k].key = column /\ columnDefinitions[k].sortable

\* toggleSort without the test of sortable
toggleSortAnyColumn(column) ==
    /\ IF sortColumn = column
       THEN /\ sortDirection' = (IF sortDirection = "asc" THEN "desc" ELSE "asc")
            /\ UNCHANGED sortColumn
       ELSE /\ sortColumn' = column
            /\ sortDirection' = "asc"
    /\ tev' = TableEvent("toggleSort", <<>>, 0, column)
    /\ UNCHANGED <<searchTerm, currentPage, pageSize, lastValue, elapsed,
                   previous, destroyed>>
    /\ UNCHANGED <<storeVars, sorting>>

\* toggleSort with a reset of the page
toggleSortResetsPage(column) ==
    /\ IF ~Sortable(column)
       THEN UNCHANGED <<sortColumn, sortDirection>>
       ELSE IF sortColumn = column
       THEN /\ sortDirection' = (IF sortDirection = "asc" THEN "desc" ELSE "asc")
            /\ UNCHANGED sortColumn
       ELSE /\ sortColumn' = column
            /\ sortDirection' = "asc"
    /\ tev' = TableEvent("toggleSort", <<>>, 0, column)
    /\ currentPage' = 1
    /\ UNCHANGED <<searchTerm, pageSize, lastValue, elapsed, previous, destroyed>>
    /\ UNCHANGED <<storeVars, sorting>>

toggleSort(column) ==
    /\ IF ~Sortable(column)
       THEN UNCHANGED <<sortColumn, sortDirection>>
       ELSE IF sortColumn = column
       THEN /\ sortDirection' = (IF sortDirection = "asc" THEN "desc" ELSE "asc")
            /\ UNCHANGED sortColumn
       ELSE /\ sortColumn' = column
            /\ sortDirection' = "asc"
    /\ tev' = TableEvent("toggleSort", <<>>, 0, column)
    /\ UNCHANGED <<searchTerm, currentPage, pageSize, lastValue, elapsed,
                   previous, destroyed>>
    /\ UNCHANGED <<storeVars, sorting>>

\* The pages asked for
PageRequests == -1..4

\* goToPage without the upper bound
goToPageNoUpperBound(page) ==
    /\ IF page >= 1
       THEN currentPage' = page
       ELSE UNCHANGED currentPage
    /\ tev' = TableEvent("goToPage", <<>>, page, "")
    /\ UNCHANGED <<searchTerm, pageSize, sortColumn, sortDirection, lastValue,
                   elapsed, previous, destroyed>>
    /\ UNCHANGED <<storeVars, sorting>>

goToPage(page) ==
    /\ IF page >= 1 /\ page <= totalPages
       THEN currentPage' = page
       ELSE UNCHANGED currentPage
    /\ tev' = TableEvent("goToPage", <<>>, page, "")
    /\ UNCHANGED <<searchTerm, pageSize, sortColumn, sortDirection, lastValue,
                   elapsed, previous, destroyed>>
    /\ UNCHANGED <<storeVars, sorting>>

\* nextPage without the test of hasNextPage
nextPageUnchecked ==
    /\ currentPage' = currentPage + 1
    /\ tev' = TableEvent("nextPage", <<>>, 0, "")
    /\ UNCHANGED <<searchTerm, pageSize, sortColumn, sortDirection, lastValue,
                   elapsed, previous, destroyed>>
    /\ UNCHANGED <<storeVars, sorting>>

nextPage ==
    /\ IF hasNextPage
       THEN currentPage' = currentPage + 1
       ELSE UNCHANGED currentPage
    /\ tev' = TableEvent("nextPage", <<>>, 0, "")
    /\ UNCHANGED <<searchTerm, pageSize, sortColumn, sortDirection, lastValue,
                   elapsed, previous, destroyed>>
    /\ UNCHANGED <<storeVars, sorting>>

previousPage ==
    /\ IF hasPreviousPage
       THEN currentPage' = currentPage - 1
       ELSE UNCHANGED currentPage
    /\ tev' = TableEvent("previousPage", <<>>, 0, "")
    /\ UNCHANGED <<searchTerm, pageSize, sortColumn, sortDirection, lastValue,
                   elapsed, previous, destroyed>>
    /\ UNCHANGED <<storeVars, sorting>>

SearchInput == \E value \in Queries : onSearchInput(value)

ToggleSort == \E column \in Columns : toggleSort(column)

GoToPage == \E page \in PageRequests : goToPage(page)

NextTable ==
    \/ SearchInput
    \/ Wait
    \/ debounceTime
    \/ ngOnDestroy
    \/ ToggleSort
    \/ GoToPage
    \/ nextPage
    \/ previousPage

SpecTable == Init /\ [][NextTable]_vars

(***************************************************************************)
(* Claims about the user table.                                            *)
(***************************************************************************)

\* A query with its surrounding white space removed and its letters folded
Normalised(q) == toLowerCase(String_trim(q))

\* The step commits a query: the subscriber has set the term (and the page)
Commits == tev'.kind = "commit"

\* C23: a query becomes the active query only when 300 time units have passed
\* since the last input, and only if it differs, after trimming and case
\* folding, from the query committed before it: an input that equals the
\* previously committed query up to surrounding white space or letter case
\* changes neither the active query nor the page.
C23_CommitOnlyWhenQueryDiffers ==
    [][ /\ Commits =>
            /\ elapsed = DebounceWindow
            /\ lastValue = Some(tev'.value)
            /\ previous # null => Normalised(tev'.value) # Normalised(previous[1])
        /\ ( /\ tev'.kind \in {"commit", "drop"}
             /\ previous # null
             /\ Normalised(tev'.value) = Normalised(previous[1]) )
           => UNCHANGED <<searchTerm, currentPage>> ]_vars

\* C24: an input replaces the value that waits and starts the wait again, so
\* of a burst of inputs less than 300 time units apart only the last is
\* committed: a commit happens only when 300 units have passed since the last
\* input, carries that input's value, and leaves nothing waiting; an input
\* itself commits nothing.
C24_BurstCommitsLastInputOnce ==
    [][ /\ (tev'.kind = "input" /\ ~destroyed) =>
            /\ lastValue' = Some(tev'.value)
            /\ elapsed' = 0
            /\ UNCHANGED <<searchTerm, currentPage, previous>>
        /\ Commits =>
            /\ lastValue = Some(tev'.value)
            /\ elapsed = DebounceWindow
            /\ searchTerm' = tev'.value
            /\ lastValue' = null
        /\ searchTerm' # searchTerm => Commits ]_vars

\* An input arrives 200 units after the one before it, which has not been
\* committed and never will be
C24_Witness ==
    /\ tev.kind = "input"
    /\ tev.value = <<"j">>
    /\ tev.cancelled = Some(<<"e">>)
    /\ tev.waited = 200
    /\ lastValue = Some(<<"j">>)
    /\ elapsed = 0
    /\ searchTerm = <<>>
    /\ previous = null

\* C25: the step that commits a query as the active query sets currentPage to
\* 1, whatever page was current before.
C25_CommitResetsPage ==
    [][ Commits => (searchTerm' = tev'.value /\ currentPage' = 1) ]_vars

\* A query was committed while page 2 was current
C25_Witness ==
    /\ tev.kind = "commit"
    /\ tev.page = 2
    /\ tev.value = <<"j">>
    /\ searchTerm = <<"j">>
    /\ currentPage = 1

\* C26: toggleSort leaves currentPage, the active query and pageSize as they
\* were, whether it changes the sort column, the direction or nothing.
C26_ToggleSortFrame ==
    [][ tev'.kind = "toggleSort" =>
            UNCHANGED <<currentPage, searchTerm, pageSize>> ]_vars

\* The sort went from name to age on page 2 of a committed query
C26_Witness ==
    /\ tev.kind = "toggleSort"
    /\ tev.column = "age"
    /\ sortColumn = "age"
    /\ sortDirection = "asc"
    /\ currentPage = 2
    /\ searchTerm = <<"e">>

\* The page goToPage(page) leaves current, as the claim states it
PageAfterGoTo(page) ==
    IF 1 <= page /\ page <= totalPages THEN page ELSE currentPage

\* C27: goToPage(p) sets currentPage to p when 1 <= p <= totalPages and
\* changes nothing otherwise; nextPage does what goToPage(currentPage + 1)
\* does and previousPage what goToPage(currentPage - 1) does; none of them
\* touches the query, the sort, the page size or the debounce, and none takes
\* currentPage out of 1..totalPages.
C27_PageChangesStayInRange ==
    [][ /\ tev'.kind = "goToPage" => currentPage' = PageAfterGoTo(tev'.page)
        /\ tev'.kind = "nextPage" => currentPage' = PageAfterGoTo(currentPage + 1)
        /\ tev'.kind = "previousPage" =>
                currentPage' = PageAfterGoTo(currentPage - 1)
        /\ tev'.kind \in {"goToPage", "nextPage", "previousPage"} =>
            /\ UNCHANGED <<searchTerm, pageSize, sortColumn, sortDirection,
                           lastValue, elapsed, previous, destroyed>>
            /\ currentPage \in 1..totalPages => currentPage' \in 1..totalPages
      ]_vars

\* Page 3 of 2 was asked for on page 2
C27_Witness ==
    /\ tev.kind = "goToPage"
    /\ tev.page = 3
    /\ totalPages = 2
    /\ currentPage = 2

\* The records that match the active query
Matching == {k \in DOMAIN mockUsers : mockUsers[k] \in Range(filteredUsers)}

\* C28: in every reachable state totalPages is the larger of 1 and the
\* number of matching records divided by pageSize, rounded up; it is 1 when
\* no record matches.
C28_TotalPagesAtLeastOne ==
    LET n == Cardinality(Matching)
        pages == Math_ceil(n, pageSize)
    IN  /\ totalPages = (IF pages < 1 THEN 1 ELSE pages)
        /\ n = 0 => totalPages = 1

\* C29: in every reachable state the displayed page is the records of the
\* sorted filtered sequence for the current query, sort column and direction
\* at positions (currentPage - 1) * pageSize up to but not including
\* currentPage * pageSize: at most pageSize records, fewer on the last page.
C29_PageIsSliceOfSortedFiltered ==
    LET sorted == SortedUsers[searchTerm, sortColumn, sortDirection]
        first == (currentPage - 1) * pageSize
        last == IF currentPage * pageSize < Len(sorted)
                THEN currentPage * pageSize
                ELSE Len(sorted)
    IN  /\ Len(paginatedUsers) = (IF last > first THEN last - first ELSE 0)
        /\ \A k \in DOMAIN paginatedUsers : paginatedUsers[k] = sorted[first + k]
        /\ Len(paginatedUsers) <= pageSize

\* The second and last page of all eight users by falling age: three records
C29_Witness ==
    /\ currentPage = 2
    /\ sortColumn = "age"
    /\ sortDirection = "desc"
    /\ searchTerm = <<"E">>
    /\ [k \in DOMAIN paginatedUsers |-> paginatedUsers[k].id] = <<1, 5, 3>>

\* s contains t when the case of letters is ignored
ContainsFolded(s, t) ==
    \E off \in 0..(Len(s) - Len(t)) :
        \A i \in 1..Len(t) : toLowerCase(s)[off + i] = toLowerCase(t)[i]

\* The positions of the source records whose name or email contains q
Containing ==
    [q \in Queries |->
        {k \in DOMAIN mockUsers :
            \/ ContainsFolded(mockUsers[k].name, q)
            \/ ContainsFolded(mockUsers[k].email, q)}]

\* The records of the source at the positions pos, in source order
Picked(pos) == [j \in 1..Cardinality(pos) |-> mockUsers[KeptAt(pos, j)]]

Blank(q) == \A i \in DOMAIN q : q[i] \in WhiteSpace

\* C30, as stated: the filtered records are the source records whose name or
\* email contains the active query, letter case ignored, in source order;
\* every record when the query is empty.
C30_FilterIsSubstringMatch ==
    /\ filteredUsers = Picked(Containing[searchTerm])
    /\ searchTerm = <<>> => filteredUsers = mockUsers

\* C30, amended: the filtered records are every source record when the
\* active query is empty or only white space, and otherwise the source
\* records whose name or email contains the query, letter case ignored, in
\* source order.
C30_FilterIsSubstringMatchUnlessBlank ==
    IF Blank(searchTerm)
    THEN filteredUsers = mockUsers
    ELSE filteredUsers = Picked(Containing[searchTerm])

\* The query j is active and leaves the one user whose name has a J
C30_Witness ==
    /\ searchTerm = <<"j">>
    /\ tev.kind = "commit"
    /\ filteredUsers = <<mockUsers[1]>>

(***************************************************************************)
(* sortedUsers on its own.  One evaluation reads filteredUsers(),          *)
(* sortColumn() and sortDirection(), copies the users it read and sorts    *)
(* the copy.  The lists it is given here are the filtered lists of the     *)
(* table and lists of users some of whose names or ages are equal.         *)
(***************************************************************************)

TiedUsers ==
    { User(1, <<"A", "n", "n", " ", "L", "e", "e">>, <<"a", "n", "n", "@", "e", "x", "a", "m", "p", "l", "e", ".", "c", "o", "m">>, 30),
      User(2, <<"A", "n", "n", " ", "L", "e", "e">>, <<"l", "e", "e", "@", "e", "x", "a", "m", "p", "l", "e", ".", "c", "o", "m">>, 25),
      User(3, <<"B", "o", "b", " ", "R", "a", "y">>, <<"b", "o", "b", "@", "e", "x", "a", "m", "p", "l", "e", ".", "c", "o", "m">>, 30) }

\* The lists of one, two or three of them, in every order
TiedLists ==
    LET lists == {<<>>}
            \cup {<<a>> : a \in TiedUsers}
            \cup {<<a, b>> : a \in TiedUsers, b \in TiedUsers}
            \cup {<<a, b, c>> : a \in TiedUsers, b \in TiedUsers, c \in TiedUsers}
    IN  {l \in lists : \A i, j \in DOMAIN l : i # j => l[i] # l[j]}

UserLists == TiedLists \cup {FilteredUsers[q] : q \in Queries}

\* The computation starts: it has read its three signals
sortedUsersRead(users, column, direction) ==
    /\ sorting' = [users |-> users, column |-> column,
                   direction |-> direction, result |-> null]
    /\ UNCHANGED <<storeVars, tableVars>>

\* sortedUsers that sorts the list it read, without copying it
sortedUsersInPlace ==
    /\ sorting.result = null
    /\ LET sorted == sortUsers(sorting.users, sorting.column, sorting.direction)
       IN  sorting' = [sorting EXCEPT !.users = sorted, !.result = Some(sorted)]
    /\ UNCHANGED <<storeVars, tableVars>>

\* The computation ends: it returns the sorted copy; the list it read is as
\* it was
sortedUsersReturn ==
    /\ sorting.result = null
    /\ sorting' = [sorting EXCEPT
          !.result = Some(sortUsers(sorting.users, sorting.column,
                                    sorting.direction))]
    /\ UNCHANGED <<storeVars, tableVars>>

SortedUsersRead ==
    \E users \in UserLists, column \in Columns \cup {NoColumn},
       direction \in Directions :
        sortedUsersRead(users, column, direction)

NextSort == SortedUsersRead \/ sortedUsersReturn

SpecSort == Init /\ [][NextSort]_vars

(***************************************************************************)
(* Claims about the sort.                                                  *)
(***************************************************************************)

\* Text a comes before text b: at the first place where they differ a has
\* the letter that comes first, or a ends there
TextBefore(a, b) ==
    \E k \in 1..(Len(a) + 1) :
        /\ k <= Len(b)
        /\ \A i \in 1..(k - 1) : Weight(a[i]) = Weight(b[i])
        /\ k > Len(a) \/ Weight(a[k]) < Weight(b[k])

\* Key value x comes before key value y in the natural order of the column
KeyBefore(x, y, column) ==
    IF column \in StringColumns THEN TextBefore(x, y) ELSE x < y

KeyEqual(x, y, column) == ~KeyBefore(x, y, column) /\ ~KeyBefore(y, x, column)

\* The place of user u in the list l
PlaceIn(l, u) == CHOOSE i \in DOMAIN l : l[i] = u

IdsIn(l) == [i \in DOMAIN l |-> l[i].id]

\* out is the list in sorted by column in the direction, equal keys left in
\* the order they had
IsStableSort(out, in, column, direction) ==
    /\ Len(out) = Len(in)
    /\ Range(out) = Range(in)
    /\ \A i, j \in DOMAIN out :
          i < j =>
            LET x == out[i][column]
                y == out[j][column]
            IN  \/ IF direction = "asc"
                   THEN KeyBefore(x, y, column)
                   ELSE KeyBefore(y, x, column)
                \/ /\ KeyEqual(x, y, column)
                   /\ PlaceIn(in, out[i]) < PlaceIn(in, out[j])

\* C31: with a sort key set, the sorted sequence is a permutation of the
\* list it was made from, ordered by the key (text by its letters, numbers
\* by value) upwards or downwards as sortDirection says, records with equal
\* keys in the order they had; with no sort key it is that list; and the
\* list that was read is left as it was.
C31_SortIsStablePermutation ==
    [][ sorting'.result # null =>
            /\ sorting'.users = sorting.users
            /\ IF sorting'.column = NoColumn
               THEN sorting'.result[1] = sorting'.users
               ELSE IsStableSort(sorting'.result[1], sorting.users,
                                 sorting'.column, sorting'.direction)
      ]_vars

\* Sorted by rising age, the two users aged 30 stay in the order they came
C31_Witness ==
    /\ sorting.result # null
    /\ sorting.column = "age"
    /\ sorting.direction = "asc"
    /\ IdsIn(sorting.users) = <<3, 1, 2>>
    /\ IdsIn(sorting.result[1]) = <<2, 3, 1>>

Reverse(l) == [i \in DOMAIN l |-> l[Len(l) + 1 - i]]

\* The records of l whose key no other record of l has
Untied(l, column) ==
    LET alone(u) == \A i \in DOMAIN l : l[i] # u => l[i][column] # u[column]
    IN  SelectSeq(l, alone)

Opposite(direction) == IF direction = "asc" THEN "desc" ELSE "asc"

\* C32: for a text sort key, the list sorted in one direction is, on the
\* records whose key no other record has, the reverse of the same list
\* sorted in the other direction; it is the reverse outright when all keys
\* differ.
C32_DescendingReversesAscending ==
    (sorting.result # null /\ sorting.column \in StringColumns) =>
        LET one == sorting.result[1]
            other == sortUsers(sorting.users, sorting.column,
                               Opposite(sorting.direction))
        IN  /\ Untied(one, sorting.column) =
                  Reverse(Untied(other, sorting.column))
            /\ Untied(one, sorting.column) = one => one = Reverse(other)

\* The eight users of the table by falling name
C32_Witness ==
    /\ sorting.result # null
    /\ sorting.column = "name"
    /\ sorting.direction = "desc"
    /\ sorting.users = mockUsers
    /\ IdsIn(sorting.result[1]) = <<8, 7, 6, 5, 4, 3, 2, 1>>

(***************************************************************************)
(* The store with a data source that never fails.  Every call in flight    *)
(* settles: the observables of the service are timers (delay), and a timer *)
(* that has been started fires.  Callers are under no such obligation.     *)
(***************************************************************************)

NextSucceeds ==
    \/ TodosFacade_loadTodos
    \/ TodosFacade_addTodo
    \/ TodosFacade_toggleTodo
    \/ TodosFacade_deleteTodo
    \/ SettleNext

SpecSucceeds == Init /\ [][NextSucceeds]_vars /\ WF_vars(SettleNext)

\* The store shows the data source's collection and is not loading
Resynchronised == state.loading = FALSE /\ Items = Source

\* C33: with a data source that never fails, once callers have dispatched a
\* command the store comes to a state with loading false and items equal to
\* the data source's collection (the same records with the same flags in
\* the same order), and from the last command on it stays there.
C33_EventuallyResynchronised == (ncmd > 0) ~> []Resynchronised

\* All calls have settled after an add and a delete of the first record:
\* the store shows the three records the data source has now
C33_Witness ==
    /\ calls = {}
    /\ ncmd = MaxCommands
    /\ ev.kind = "settle" /\ ev.lane = "load"
    /\ Resynchronised
    /\ Len(Items) = 3
    /\ "1" \notin IdsOf(Items)

(***************************************************************************)
(* Claims about the store and its effects, continued.                      *)
(***************************************************************************)

\* The step reduces the LoadSucceeded of a fetch that has settled
LoadSucceededStep ==
    /\ ev'.kind = "settle" /\ ev'.lane = "load"
    /\ ev'.subscribed /\ ev'.ok

\* The calls of operation op that are in flight after the step and whose
\* effect still waits for them: the resynchronizing load of their command
\* has not been issued yet
Awaited(op) == {c \in calls' : c.subscribed /\ c.op = op}

\* C34: a LoadSucceeded of a fetch issued before an add, a toggle or a
\* delete was dispatched does not undo what the reducer did for that
\* command: while the command's own call is in flight, after any
\* LoadSucceeded items still has the record the data source created for an
\* add (as long as the data source has it), has no record with the id of a
\* delete that removed it (as long as the data source has none), and shows
\* the record of a toggle with the flag the data source gave it.
C34_StaleLoadKeepsOptimisticChange ==
    [][ LoadSucceededStep =>
          /\ \A c \in Awaited("addTodo") :
                c.value[1] \in Range(mockTodos')
                    => Alias(c.value[1]) \in Range(state'.todos)
          /\ \A c \in Awaited("deleteTodo") :
                (c.removed /\ c.arg \notin IdsOf(Source'))
                    => c.arg \notin IdsOf(Items')
          /\ \A c \in Awaited("toggleTodo") :
                \A i \in DOMAIN Items' :
                    (c.value # <<>> /\ Items'[i].id = c.arg)
                        => Items'[i].completed = heap'[c.value[1]].completed
      ]_vars

\* C35: while the fetch of the latest LoadRequested is in flight, loading is
\* true: nothing that another lane produces sets it to false before that
\* fetch settles.
C35_LoadingWhileFetchInFlight ==
    (\E c \in calls : c.lane = "load" /\ c.subscribed) => state.loading = TRUE

\* C36: a lane survives its failures.  No effect is ever ended; whatever
\* has failed before, a command of a lane makes its effect call the data
\* source and subscribe to the call, and the settlement of a call an effect
\* is subscribed to, failed or not, dispatches one follow-up command.
C36_LaneSurvivesFailure ==
    /\ faulted = {}
    /\ ev.kind = "call" =>
          /\ ev.invoked = 1
          /\ \E c \in calls : c.lane = ev.lane /\ c.subscribed /\ c.latest
    /\ (ev.kind = "settle" /\ ev.subscribed) =>
          /\ Len(ev.out) = 1
          /\ ev.out[1].type \in
                (IF ~ev.ok THEN {FailureType}
                 ELSE IF ev.lane = "load" THEN {SuccessType}
                 ELSE {loadTodos.type})

\* Two adds, one after the other: the call of the first has failed, and the
\* second has its own call in flight
C36_Witness ==
    /\ ncmd = 2
    /\ Len(state.todos) = 2
    /\ state.error = Some("offline")
    /\ ev.kind = "call" /\ ev.lane = "add" /\ ev.invoked = 1
    /\ \E c \in calls : c.lane = "add" /\ c.subscribed /\ c.op = "addTodo"

\* C37: after an AddRequested has been dispatched, the record the reducer
\* appended to items and the record the data source created for the add
\* carry the same id, so a toggle or a delete of the appended record names
\* the data source's record.
C37_OptimisticIdIsSourceId ==
    (ev.kind = "call" /\ ev.lane = "add") =>
        /\ Items # <<>> /\ Source # <<>>
        /\ Items[Len(Items)].title = ev.action.title
        /\ Source[Len(Source)].title = ev.action.title
        /\ Items[Len(Items)].id = Source[Len(Source)].id

(***************************************************************************)
(* Claims about the user table, continued.                                 *)
(***************************************************************************)

\* C38: in every reachable state of the table currentPage is at least 1 and
\* at most the larger of 1 and totalPages, so the displayed page is empty
\* only when no record matches the active query.
C38_CurrentPageInRange ==
    /\ 1 <= currentPage
    /\ currentPage <= (IF totalPages < 1 THEN 1 ELSE totalPages)
    /\ paginatedUsers = <<>> => filteredUsers = <<>>

\* A query that no record matches was committed on page 2: the page is 1
\* of none
C38_Witness ==
    /\ tev.kind = "commit"
    /\ tev.page = 2
    /\ searchTerm = <<"z", "z">>
    /\ totalPages = 0
    /\ currentPage = 1
    /\ paginatedUsers = <<>>

\* The columns the table lets the user sort by
SortableColumns == {"name", "age"}

\* The sort column and direction after toggleSort(column), as the claim
\* states them
SortAfter(sort, column) ==
    IF column \notin SortableColumns THEN sort
    ELSE IF sort[1] = column THEN <<column, Opposite(sort[2])>>
    ELSE <<column, "asc">>

\* C39: toggleSort on a column that is not sortable (email) changes neither
\* sortColumn nor sortDirection; on the current sort column it flips
\* sortDirection and keeps sortColumn; on another sortable column it sets
\* sortColumn to it and sortDirection to asc.  So sortColumn is always a
\* sortable column, and two toggleSort calls on the current column give
\* back the sort they started from.
C39_ToggleSortSemantics ==
    [][ /\ tev'.kind = "toggleSort" =>
            /\ <<sortColumn', sortDirection'>> =
                   SortAfter(<<sortColumn, sortDirection>>, tev'.column)
            /\ SortAfter(<<sortColumn', sortDirection'>>, sortColumn') =
                   <<sortColumn', Opposite(sortDirection')>>
            /\ SortAfter(SortAfter(<<sortColumn', sortDirection'>>, sortColumn'),
                         sortColumn') = <<sortColumn', sortDirection'>>
        /\ sortColumn' \in SortableColumns
        /\ <<sortColumn', sortDirection'>> # <<sortColumn, sortDirection>>
              => tev'.kind = "toggleSort" ]_vars

\* toggleSort on email has just left the sort by falling age as it was
C39_Witness ==
    /\ tev.kind = "toggleSort"
    /\ tev.column = "email"
    /\ sortColumn = "age"
    /\ sortDirection = "desc"

\* C40: after ngOnDestroy no query is committed: the teardown drops the
\* value that waits for its timer, so that timer commits nothing, and an
\* input after the teardown starts no timer and changes neither the active
\* query nor currentPage.
C40_NoCommitAfterTeardown ==
    [][ /\ tev'.kind = "destroy" =>
            /\ destroyed' /\ lastValue' = null
            /\ UNCHANGED <<searchTerm, currentPage>>
        /\ destroyed =>
            /\ destroyed'
            /\ lastValue = null /\ lastValue' = null
            /\ tev'.kind \notin {"commit", "drop", "wait"}
            /\ searchTerm' = searchTerm
            /\ tev'.kind = "input" => currentPage' = currentPage ]_vars

\* The teardown came 200 units after an input, which was never committed
C40_Witness ==
    /\ destroyed
    /\ tev.kind = "destroy"
    /\ tev.cancelled = Some(<<"j">>)
    /\ tev.waited = 200
    /\ lastValue = null
    /\ searchTerm = <<>>

====
